---- MODULE Spec2Model ----
(***************************************************************************)
(* Page selection and attribute extraction of app.py: the two POST         *)
(* endpoints, the keyword gate, the per-attribute QA loop, the temporary   *)
(* page images in the working directory and the asyncio event loop that    *)
(* runs the handlers.                                                      *)
(*                                                                         *)
(* Strings the code inspects character by character (spreadsheet cells,    *)
(* OCR lines, QA answers) are sequences of one-character strings.          *)
(* Attribute names and hospital codes are only compared for equality and   *)
(* are TLA+ strings.                                                       *)
(***************************************************************************)
EXTENDS Integers, Sequences, FiniteSets, TLC

\* Longest document of a request of Spec.
MaxPages == 3
\* Longest document of a request of SpecConc.
MaxPagesConc == 1
\* Number of requests in flight at once in SpecConc.
NumReq == 2

Requests == 1..NumReq
\* temp_page_{n}.png, named by n
Paths == 1..(IF MaxPages > MaxPagesConc THEN MaxPages ELSE MaxPagesConc)

-----------------------------------------------------------------------------
(* str methods *)

LowerChar(c) ==
    CASE c = "U" -> "u"
      [] c = "D" -> "d"
      [] OTHER -> c

\* str.lower()
Lower(s) == [i \in 1..Len(s) |-> LowerChar(s[i])]

\* k in t
In(k, t) ==
    \E i \in 0..(Len(t) - Len(k)) : SubSeq(t, i + 1, i + Len(k)) = k

RECURSIVE LStrip(_)
LStrip(s) == IF s # <<>> /\ Head(s) = " " THEN LStrip(Tail(s)) ELSE s

RECURSIVE RStrip(_)
RStrip(s) ==
    IF s # <<>> /\ s[Len(s)] = " " THEN RStrip(SubSeq(s, 1, Len(s) - 1)) ELSE s

\* str.strip()
Strip(s) == RStrip(LStrip(s))

\* s.split(','): the pieces between the commas, empty pieces included
RECURSIVE SplitFrom(_, _, _)
SplitFrom(s, i, piece) ==
    IF i > Len(s) THEN <<piece>>
    ELSE IF s[i] = "," THEN <<piece>> \o SplitFrom(s, i + 1, <<>>)
    ELSE SplitFrom(s, i + 1, Append(piece, s[i]))

Split(s) == SplitFrom(s, 1, <<>>)

\* " ".join(lines)
RECURSIVE Join(_)
Join(lines) ==
    IF lines = <<>> THEN <<>>
    ELSE IF Len(lines) = 1 THEN lines[1]
    ELSE lines[1] \o <<" ">> \o Join(Tail(lines))

-----------------------------------------------------------------------------
(* Keywords.xlsx and Attributes.xlsx *)

\* A cell pandas reads as NaN (left empty in the sheet)
NaN == <<"NaN">>

\* Hospital ID -> Keywords cell
KeywordsXlsx ==
    [AB |-> <<"U", ",", " ", "d">>,
     CD |-> <<" ", "u", "d">>,
     EF |-> <<",">>,
     GH |-> NaN]

\* Hospital ID -> Requested_attributes, already split and stripped
AttributesXlsx ==
    [AB |-> <<"Age", "Doctor Name">>,
     CD |-> <<"Age", "Age", "IPD Number", "Admission Number">>,
     EF |-> <<"Blood Group", "">>,
     GH |-> <<"Age">>,
     KL |-> <<"Patient Name">>]

\* Hospital codes a file name can carry; ZZ is in neither sheet
HospitalCodes == {"AB", "CD", "EF", "GH", "KL", "ZZ"}

\* requested_attributes of the first endpoint, already split and stripped
RequestedLists ==
    { <<"Age">>,
      <<"Age", "Doctor Name">>,
      <<"Blood Group">>,
      <<"Age", "Age", "Admission Number", "">> }

\* the comprehension of line 43
ParseKeywords(cell) == [i \in 1..Len(Split(cell)) |-> Strip(Split(cell)[i])]

\* load_keywords_from_excel; readable is whether pd.read_excel succeeds
load_keywords_from_excel(hospital_code, readable) ==
    IF ~readable THEN <<>>
    ELSE IF hospital_code \notin DOMAIN KeywordsXlsx THEN <<>>
    ELSE IF KeywordsXlsx[hospital_code] = NaN THEN <<>>
    ELSE ParseKeywords(KeywordsXlsx[hospital_code])

-----------------------------------------------------------------------------
(* Documents: what rasterizing and OCR give for each page *)

Page(fault, lines) == [fault |-> fault, lines |-> lines]

PageKinds ==
    { Page("raster", <<>>),                       \* get_pixmap / save raises
      Page("ocr", <<>>),                          \* ocr.ocr raises
      Page("none", <<>>),                         \* OCR finds no line
      Page("none", << <<"u">>, <<"D">> >>),       \* "u D"
      Page("none", << <<"x", "U", "D">> >>),      \* "xUD"
      Page("none", << <<"u">> >>) }               \* "u"

RECURSIVE SeqsUpTo(_, _)
SeqsUpTo(S, n) ==
    IF n = 0 THEN { <<>> }
    ELSE LET shorter == SeqsUpTo(S, n - 1)
         IN  shorter \cup { Append(s, x) : s \in shorter, x \in S }

Documents(n) == SeqsUpTo(PageKinds, n)

\* any() where the code has all()
MutKeywordsFound(keywords, extracted_text) ==
    \E i \in 1..Len(keywords) : In(Lower(keywords[i]), Lower(extracted_text))

\* all(keyword.lower() in extracted_text.lower() for keyword in keywords)
KeywordsFound(keywords, extracted_text) ==
    \A i \in 1..Len(keywords) : In(Lower(keywords[i]), Lower(extracted_text))

-----------------------------------------------------------------------------
(* The QA model and the attribute questions *)

\* keys of the questions dict of extract_information_with_qa_model, in order
Questions1 ==
    <<"Patient Name", "Age", "Gender", "Admission Date", "Discharge Date",
      "UHID Number", "IPD Number", "IP Number", "MR Number", "UMR Number",
      "Doctor Name">>

\* keys of the questions dict of extract_patient_info_optimized, in order
Questions2 ==
    <<"Patient Name", "Age", "Gender", "Admission Date", "Discharge Date",
      "UHID Number", "IP Number", "MR Number", "UMR Number",
      "Admission Number", "Patient Number", "Doctor Name">>

Range(s) == { s[i] : i \in 1..Len(s) }

Vocabulary == Range(Questions1) \cup Range(Questions2)

Questions(endpoint) == IF endpoint = 1 THEN Questions1 ELSE Questions2

\* "NULL"
NOT_FOUND == <<"N", "U", "L", "L">>

Outcome(raises, answer) == [raises |-> raises, answer |-> answer]

\* What one qa_model(question, context) call can do
QAOutcomes ==
    << Outcome(TRUE, <<>>),                       \* the call raises
       Outcome(FALSE, <<"4", "5">>),              \* "45"
       Outcome(FALSE, <<>>),                      \* ""
       Outcome(FALSE, <<" ", "4", "5", " ">>),    \* " 45 "
       Outcome(FALSE, <<" ", " ">>) >>            \* "  "

\* The QA model is a function of its question and context; a behaviour fixes
\* the outcome of every question on the matched page.
QABehaviours == 0..(Len(QAOutcomes) - 1)

Index(a) == CHOOSE i \in 1..Len(Questions1 \o Questions2) : (Questions1 \o Questions2)[i] = a

qa_model(behaviour, attr) == QAOutcomes[((Index(attr) + behaviour) % Len(QAOutcomes)) + 1]

\* the answer stored without the test of answer.strip()
MutAnswerValue(outcome) ==
    IF outcome.raises THEN NOT_FOUND ELSE outcome.answer

\* lines 102-107 and 239-244: the value stored for one attribute
AnswerValue(outcome) ==
    IF outcome.raises THEN NOT_FOUND
    ELSE IF Strip(outcome.answer) # <<>> THEN outcome.answer
    ELSE NOT_FOUND

EmptyInfo == [a \in {} |-> NOT_FOUND]

\* extracted_info[key] = value
Put(info, key, value) ==
    [a \in (DOMAIN info) \cup {key} |-> IF a = key THEN value ELSE info[a]]

\* lines 98-108: every question is asked
RECURSIVE AskAll(_, _, _)
AskAll(behaviour, i, info) ==
    IF i > Len(Questions1) THEN info
    ELSE AskAll(behaviour, i + 1,
                Put(info, Questions1[i], AnswerValue(qa_model(behaviour, Questions1[i]))))

\* line 111: key in requested_attributes
Requested(key, requested_attributes) == key \in Range(requested_attributes)

\* extract_information_with_qa_model
extract_information_with_qa_model(behaviour, requested_attributes) ==
    LET extracted_info == AskAll(behaviour, 1, EmptyInfo)
    IN  [key \in { k \in DOMAIN extracted_info : Requested(k, requested_attributes) }
            |-> extracted_info[key]]

\* questions.get(attr) is truthy
HasQuestion(attr, endpoint) == attr \in Range(Questions(endpoint))

\* lines 235-245: only the requested attributes are asked, in list order
RECURSIVE AskSelected(_, _, _, _)
AskSelected(behaviour, requested_attributes_list, i, info) ==
    IF i > Len(requested_attributes_list) THEN info
    ELSE LET attr == requested_attributes_list[i]
         IN  AskSelected(behaviour, requested_attributes_list, i + 1,
                IF HasQuestion(attr, 2)
                THEN Put(info, attr, AnswerValue(qa_model(behaviour, attr)))
                ELSE info)

Occurrences(s, a) == Cardinality({ i \in 1..Len(s) : s[i] = a })

\* number of qa_model calls made for each question
Calls1(requested_attributes) ==
    [a \in Vocabulary |-> IF a \in Range(Questions1) THEN 1 ELSE 0]

Calls2(requested_attributes_list) ==
    [a \in Vocabulary |->
        IF HasQuestion(a, 2) THEN Occurrences(requested_attributes_list, a) ELSE 0]

-----------------------------------------------------------------------------
(* Responses *)

Response(status_code, message, content) ==
    [status_code |-> status_code, message |-> message, content |-> content]

NoResponse == Response(0, <<"", "">>, EmptyInfo)

Error(status_code, text, arg) == Response(status_code, <<text, arg>>, EmptyInfo)

\* lines 146 and 249
Ok(extracted_info) == Response(200, <<"", "">>, extracted_info)

\* line 149
NoRelevantInformation == Error(404, "No relevant information found.", "")

\* lines 167-170
HospitalNotInAttributes(hospital_code) ==
    Error(404, "Hospital code not found in the Attributes.xlsx file.", hospital_code)

\* line 177
ErrorLoadingAttributes == Error(500, "Error loading Attributes.xlsx", "read_excel")

\* lines 190-193
NoKeywordsFound(hospital_code) ==
    Error(404, "No keywords found for hospital code in Keywords.xlsx.", hospital_code)

\* lines 251-254
NoMatchingPageFound == Error(404, "No matching page found with the provided keywords.", "")

\* lines 152 and 257: str(e)
InternalError(e) == Error(500, "str(e)", e)

\* lines 144-149: a falsy result (None or an empty dict) is reported as 404
Respond1(extracted_info) ==
    IF extracted_info # EmptyInfo THEN Ok(extracted_info) ELSE NoRelevantInformation

-----------------------------------------------------------------------------
(* State *)

VARIABLES
    req,        \* per request: the handler's locals, its position and its log
    files,      \* working directory: temp_page_{n}.png -> the image it holds
    written,    \* for each path, the requests that have saved an image to it
    loop        \* the request the event loop is running, 0 when it is free

vars == <<req, files, written, loop>>

\* the image of page `page` of the document of request `owner`
Image(owner, page) == [owner |-> owner, page |-> page]

NoFile == Image(0, 0)

IdleRequest ==
    [pc |-> "idle",
     endpoint |-> 0,
     hospital_code |-> "",
     requested_attributes_list |-> <<>>,
     doc |-> <<>>,
     temp_file |-> FALSE,           \* the NamedTemporaryFile(delete=False) exists
     attributes_read |-> "unread",  \* pd.read_excel("Attributes.xlsx"): unread, ok, error
     keywords_read |-> "unread",    \* pd.read_excel("Keywords.xlsx"): unread, ok, error
     keywords |-> <<>>,
     page_num |-> 0,
     result |-> <<>>,
     matched |-> -1,                \* page_num of the page whose text went to the QA model
     behaviour |-> -1,              \* how the QA model behaved on that text
     qa_calls |-> [a \in Vocabulary |-> 0],
     rasterized |-> <<>>,           \* page numbers passed to get_pixmap, in order
     ocr_calls |-> <<>>,            \* images passed to ocr.ocr, in order
     in_flight |-> {},              \* the requests in flight when this one arrived
     response |-> NoResponse]

Init ==
    /\ req = [r \in Requests |-> IdleRequest]
    /\ files = [p \in Paths |-> NoFile]
    /\ written = [p \in Paths |-> {}]
    /\ loop = 0

\* the handler returns: the response goes out and the event loop is free
Return(r, fields, response) ==
    /\ req' = [req EXCEPT ![r] = [pc |-> "done", response |-> response] @@ fields @@ @]
    /\ loop' = 0

\* the handler goes on to position pc with the given locals changed
Goto(r, pc, fields) ==
    req' = [req EXCEPT ![r] = [pc |-> pc] @@ fields @@ @]

-----------------------------------------------------------------------------
\* the requests received and not yet answered
InFlight == { q \in Requests : req[q].pc \notin {"idle", "done"} }

(* /extract-patient-info/ up to its await, lines 122-137; the temporary    *)
(* file of line 136 exists from here on                                    *)

Receive1(r, hospital_code, requested_attributes_list, doc) ==
    /\ req[r].pc = "idle"
    /\ loop = 0
    /\ Goto(r, "await", [endpoint |-> 1,
                         in_flight |-> InFlight,
                         temp_file |-> TRUE,
                         hospital_code |-> hospital_code,
                         requested_attributes_list |-> requested_attributes_list,
                         doc |-> doc])
    /\ UNCHANGED <<files, written, loop>>

(* /extract-patient-info-optimized/ up to its await, lines 155-181 *)

Receive2(r, hospital_code, doc, readable) ==
    /\ req[r].pc = "idle"
    /\ loop = 0
    /\ LET base == [endpoint |-> 2, hospital_code |-> hospital_code, doc |-> doc,
                    in_flight |-> InFlight,
                    attributes_read |-> IF readable THEN "ok" ELSE "error"]
       IN  IF ~readable
           THEN Return(r, base, ErrorLoadingAttributes)
           ELSE IF hospital_code \notin DOMAIN AttributesXlsx
           THEN Return(r, base, HospitalNotInAttributes(hospital_code))
           ELSE /\ Goto(r, "await",
                        base @@ [requested_attributes_list |-> AttributesXlsx[hospital_code],
                                 temp_file |-> TRUE])
                /\ UNCHANGED loop
    /\ UNCHANGED <<files, written>>

(* await file.read() completes: the upload is written to the temporary     *)
(* file and opened, lines 137-141, 53 and 181-185                          *)

Resume(r) ==
    /\ req[r].pc = "await"
    /\ loop = 0
    /\ loop' = r
    /\ Goto(r, "keywords", [temp_file |-> TRUE])
    /\ UNCHANGED <<files, written>>

\* the check of the keyword list left out
MutNoKeywords(keywords) == FALSE

\* if not keywords
NoKeywords(keywords) == keywords = <<>>

(* lines 56-59 and 188-193 *)

LoadKeywords(r, readable) ==
    /\ req[r].pc = "keywords"
    /\ loop = r
    /\ LET keywords == load_keywords_from_excel(req[r].hospital_code, readable)
           read == [keywords_read |-> IF readable THEN "ok" ELSE "error",
                    keywords |-> keywords]
       IN  IF NoKeywords(keywords)
           THEN Return(r, read, IF req[r].endpoint = 1
                                THEN NoRelevantInformation
                                ELSE NoKeywordsFound(req[r].hospital_code))
           ELSE Goto(r, "page", read) /\ UNCHANGED loop
    /\ UNCHANGED <<files, written>>

\* a loop that steps over every other page
MutNextPage(page_num) == page_num + 2

\* the page the for loop takes after page_num
NextPage(page_num) == page_num + 1

\* image_path = f"temp_page_{page_num + 1}.png"
image_path(page_num) == page_num + 1

(* lines 62-65 and 196-199: get_pixmap and pix.save *)

Rasterize(r) ==
    /\ req[r].pc = "page"
    /\ loop = r
    /\ req[r].page_num < Len(req[r].doc)
    /\ LET page == req[r].doc[req[r].page_num + 1]
           log == [rasterized |-> Append(req[r].rasterized, req[r].page_num)]
       IN  IF page.fault = "raster"
           THEN /\ Return(r, log, InternalError("rasterize"))
                /\ UNCHANGED <<files, written>>
           ELSE /\ Goto(r, "ocr", log)
                /\ files' = [files EXCEPT ![image_path(req[r].page_num)] =
                                Image(r, req[r].page_num)]
                /\ written' = [written EXCEPT ![image_path(req[r].page_num)] = @ \cup {r}]
                /\ UNCHANGED loop

(* lines 67-69 and 201-203: ocr.ocr reads the file at image_path *)

Ocr(r) ==
    /\ req[r].pc = "ocr"
    /\ loop = r
    /\ LET image == files[image_path(req[r].page_num)]
           page == req[image.owner].doc[image.page + 1]
           log == [ocr_calls |-> Append(req[r].ocr_calls, image)]
       IN  IF page.fault = "ocr"
           THEN Return(r, log, InternalError("ocr"))
           ELSE IF page.lines = <<>>
           THEN /\ Goto(r, "page", log @@ [page_num |-> NextPage(req[r].page_num)])
                /\ UNCHANGED loop
           ELSE /\ Goto(r, "gate", log @@ [result |-> page.lines])
                /\ UNCHANGED loop
    /\ UNCHANGED <<files, written>>

(* lines 71-76 and 205-209: the keyword gate *)

Gate(r) ==
    /\ req[r].pc = "gate"
    /\ loop = r
    /\ LET extracted_text == Join(req[r].result)
       IN  IF KeywordsFound(req[r].keywords, extracted_text)
           THEN Goto(r, "qa", [matched |-> req[r].page_num])
           ELSE Goto(r, "page", [page_num |-> NextPage(req[r].page_num)])
    /\ UNCHANGED <<files, written, loop>>

(* lines 76, 81-114 and 144-149 *)

Extract1(r, behaviour) ==
    /\ req[r].pc = "qa"
    /\ req[r].endpoint = 1
    /\ loop = r
    /\ LET extracted_info ==
              extract_information_with_qa_model(behaviour, req[r].requested_attributes_list)
       IN  Return(r, [behaviour |-> behaviour,
                      qa_calls |-> Calls1(req[r].requested_attributes_list)],
                  Respond1(extracted_info))
    /\ UNCHANGED <<files, written>>

(* lines 210-249 *)

Extract2(r, behaviour) ==
    /\ req[r].pc = "qa"
    /\ req[r].endpoint = 2
    /\ loop = r
    /\ LET extracted_info ==
              AskSelected(behaviour, req[r].requested_attributes_list, 1, EmptyInfo)
       IN  Return(r, [behaviour |-> behaviour,
                      qa_calls |-> Calls2(req[r].requested_attributes_list)],
                  Ok(extracted_info))
    /\ UNCHANGED <<files, written>>

(* lines 78-79 with 147-149, and 251-254: the loop ran out of pages *)

NoMatch(r) ==
    /\ req[r].pc = "page"
    /\ loop = r
    /\ req[r].page_num >= Len(req[r].doc)
    /\ Return(r, [page_num |-> req[r].page_num], IF req[r].endpoint = 1
                        THEN NoRelevantInformation
                        ELSE NoMatchingPageFound)
    /\ UNCHANGED <<files, written>>

-----------------------------------------------------------------------------
(* Specifications *)

Post1(r, n, codes, lists) ==
    /\ req[r].pc = "idle"
    /\ \E h \in codes, a \in lists, d \in Documents(n) :
          Receive1(r, h, a, d)

Post2(r, n, codes) ==
    /\ req[r].pc = "idle"
    /\ \E h \in codes, d \in Documents(n), readable \in BOOLEAN :
          Receive2(r, h, d, readable)

Answer1(r) ==
    /\ req[r].pc = "qa"
    /\ \E b \in QABehaviours : Extract1(r, b)

Answer2(r) ==
    /\ req[r].pc = "qa"
    /\ \E b \in QABehaviours : Extract2(r, b)

Handle(r) ==
    \/ Resume(r)
    \/ \E readable \in BOOLEAN : LoadKeywords(r, readable)
    \/ Rasterize(r)
    \/ Ocr(r)
    \/ Gate(r)
    \/ Answer1(r)
    \/ Answer2(r)
    \/ NoMatch(r)

\* one request, documents of up to MaxPages pages
Next ==
    \/ Post1(1, MaxPages, HospitalCodes, RequestedLists)
    \/ Post2(1, MaxPages, HospitalCodes)
    \/ Handle(1)

Spec == Init /\ [][Next]_vars

\* a known and an unknown hospital, one attribute list
ConcHospitalCodes == {"AB", "ZZ"}
ConcRequestedLists == { <<"Age">> }

\* NumReq requests in flight, documents of up to MaxPagesConc pages
NextConc ==
    \E r \in Requests :
        \/ Post1(r, MaxPagesConc, ConcHospitalCodes, ConcRequestedLists)
        \/ Post2(r, MaxPagesConc, ConcHospitalCodes)
        \/ Handle(r)

SpecConc == Init /\ [][NextConc]_vars

-----------------------------------------------------------------------------
(* Properties *)

Done(r) == req[r].pc = "done"

Matched(r) == req[r].matched # -1

\* the text of a page: its OCR lines joined by single spaces
Text(page) == Join(page.lines)

\* every keyword is a case-insensitive substring of text
HasAllKeywords(keywords, text) ==
    \A i \in 1..Len(keywords) :
        \E off \in 0..(Len(text) - Len(keywords[i])) :
            \A j \in 1..Len(keywords[i]) :
                LowerChar(text[off + j]) = LowerChar(keywords[i][j])

\* the pages of r the scan has decided: the ones it left behind and the matched one
Decided(r) ==
    { p \in 0..(Len(req[r].doc) - 1) : p < req[r].page_num \/ p = req[r].matched }

\* the OCR engine returned text for the page and the text has every keyword
Satisfies(keywords, page) ==
    /\ page.fault = "none"
    /\ page.lines # <<>>
    /\ HasAllKeywords(keywords, Text(page))

NoCalls(r) == \A a \in Vocabulary : req[r].qa_calls[a] = 0

Known(r) == Range(Questions(req[r].endpoint))

\* the lookup of the hospital code ran and found no row
ConfigNotFound(r) ==
    \/ /\ req[r].endpoint = 2
       /\ req[r].attributes_read = "ok"
       /\ req[r].hospital_code \notin DOMAIN AttributesXlsx
    \/ /\ req[r].keywords_read = "ok"
       /\ req[r].hospital_code \notin DOMAIN KeywordsXlsx

\* what the scan of r answers when it runs out of pages
NoMatchingPage(r) ==
    IF req[r].endpoint = 1 THEN NoRelevantInformation ELSE NoMatchingPageFound

\* C1: with a non-empty keyword list, a decided page is the selected page
\* exactly when every keyword is a case-insensitive substring of its OCR
\* text, and the page extraction runs on has every keyword.
C1_KeywordGate ==
    \A r \in Requests :
        req[r].keywords # <<>> =>
            \A p \in Decided(r) :
                (p = req[r].matched)
                    <=> HasAllKeywords(req[r].keywords, Text(req[r].doc[p + 1]))

C3_UnknownHospital ==
    \A r \in Requests :
        ConfigNotFound(r) =>
            /\ req[r].rasterized = <<>>
            /\ req[r].ocr_calls = <<>>
            /\ NoCalls(r)
            /\ Done(r)
            /\ req[r].response.status_code = 404
            /\ req[r].response \in
                  { NoRelevantInformation,
                    HospitalNotInAttributes(req[r].hospital_code),
                    NoKeywordsFound(req[r].hospital_code) }

\* an unknown hospital sent a document with pages to the first endpoint
C3_Witness ==
    \E r \in Requests :
        /\ ConfigNotFound(r)
        /\ req[r].endpoint = 1
        /\ Len(req[r].doc) > 0
        /\ Done(r)

\* no page of the document satisfies the gate
NoPageSatisfies(r) ==
    \A p \in 1..Len(req[r].doc) : ~Satisfies(req[r].keywords, req[r].doc[p])

\* rasterizing or OCR raises on some page
SomePageFaults(r) ==
    \E p \in 1..Len(req[r].doc) : req[r].doc[p].fault # "none"

\* C4 as stated: when no page satisfies the gate, the request ends in
\* NoMatchingPage and the QA model is never called.
C4_NoMatchingPage ==
    \A r \in Requests :
        (Done(r) /\ req[r].keywords # <<>> /\ NoPageSatisfies(r)) =>
            /\ req[r].response = NoMatchingPage(r)
            /\ NoCalls(r)

\* C4 amended: when no page satisfies the gate the QA model is never called,
\* and the request ends in NoMatchingPage unless rasterizing or OCR raises
\* on a page, in which case it ends in a 500 response.
C4_NoMatchingPageUnlessFault ==
    \A r \in Requests :
        (Done(r) /\ req[r].keywords # <<>> /\ NoPageSatisfies(r)) =>
            /\ NoCalls(r)
            /\ IF SomePageFaults(r)
               THEN req[r].response.status_code = 500
               ELSE req[r].response = NoMatchingPage(r)

\* a scan went through a blank page and a page of text and matched neither
C4_Witness ==
    \E r \in Requests :
        /\ Done(r)
        /\ req[r].keywords # <<>>
        /\ NoPageSatisfies(r)
        /\ ~SomePageFaults(r)
        /\ \E p, q \in 1..Len(req[r].doc) :
              req[r].doc[p].lines = <<>> /\ req[r].doc[q].lines # <<>>

\* C5: whenever a page satisfied the gate the request returns a result
\* mapping whose keys are exactly the requested attributes that have a
\* question.
C5_ResultKeys ==
    \A r \in Requests :
        (Done(r) /\ Matched(r)) =>
            /\ req[r].response.status_code = 200
            /\ DOMAIN req[r].response.content =
                  Range(req[r].requested_attributes_list) \cap Known(r)

Blank(s) == \A i \in 1..Len(s) : s[i] = " "

\* C6: every requested attribute with a question is in the result, with
\* NOT_FOUND when its own QA call raised or answered nothing but whitespace
\* and with that call's answer otherwise, whatever the other calls did; the
\* request is answered with 200.
C6_AttributeIsolation ==
    \A r \in Requests :
        (Done(r) /\ Matched(r)) =>
            \A a \in Range(req[r].requested_attributes_list) \cap Known(r) :
                LET outcome == qa_model(req[r].behaviour, a)
                IN  /\ req[r].response.status_code = 200
                    /\ a \in DOMAIN req[r].response.content
                    /\ req[r].response.content[a] =
                          IF outcome.raises \/ Blank(outcome.answer)
                          THEN NOT_FOUND
                          ELSE outcome.answer

\* two requested attributes: the QA call of one raised, the other was answered
C6_Witness ==
    \E r \in Requests :
        /\ Done(r)
        /\ Matched(r)
        /\ \E a, b \in Range(req[r].requested_attributes_list) \cap Known(r) :
              /\ qa_model(req[r].behaviour, a).raises
              /\ req[r].response.content[a] = NOT_FOUND
              /\ ~qa_model(req[r].behaviour, b).raises
              /\ req[r].response.content[b] # NOT_FOUND

\* why a request failed, from what it did
Cause(r) ==
    IF req[r].attributes_read = "error" \/ req[r].keywords_read = "error"
    THEN "ConfigUnreadable"
    ELSE IF ConfigNotFound(r) THEN "ConfigNotFound"
    ELSE IF req[r].keywords = <<>> \/ Matched(r) THEN "other"
    ELSE IF req[r].page_num >= Len(req[r].doc) THEN "NoMatchingPage"
    ELSE "ExtractionFailed"

\* C7: the response alone tells the causes of failure apart: two requests
\* that failed for different reasons (hospital unknown, config store
\* unreadable, no page matched, extraction failed) got different responses.
C7_DistinctStatuses ==
    \A r1, r2 \in Requests :
        (Done(r1) /\ Done(r2) /\ Cause(r1) # "other" /\ Cause(r2) # "other"
            /\ Cause(r1) # Cause(r2))
        => req[r1].response # req[r2].response

\* C8: once a request is answered, no page image it created still exists.
C8_ImagesRemoved ==
    \A r \in Requests :
        Done(r) => \A p \in Paths : files[p].owner # r

\* C9: on the matched page the QA model is called once for each requested
\* attribute that has a question and never for any other attribute.
C9_OneCallPerRequested ==
    \A r \in Requests :
        (Done(r) /\ Matched(r)) =>
            \A a \in Vocabulary :
                req[r].qa_calls[a] =
                    IF a \in Range(req[r].requested_attributes_list) \cap Known(r)
                    THEN 1 ELSE 0

\* r1 and r2 were in flight at the same time
Concurrent(r1, r2) == r1 \in req[r2].in_flight \/ r2 \in req[r1].in_flight

\* C10: two concurrent requests never write the same page image, and every
\* OCR call reads the image its own request rasterized.
C10_NoSharedState ==
    /\ \A r1, r2 \in Requests :
          (r1 # r2 /\ Concurrent(r1, r2)) =>
              \A p \in Paths : ~(r1 \in written[p] /\ r2 \in written[p])
    /\ \A r \in Requests :
          \A i \in 1..Len(req[r].ocr_calls) : req[r].ocr_calls[i].owner = r

====
